---- MODULE Spec2Model ----
(***************************************************************************)
(* Model of tokio-websockets' client handshake (src/src/client.rs) and of  *)
(* its streaming UTF-8 validator (src/src/utf8.rs).                        *)
(*                                                                         *)
(* Bytes are the integers 0..255.  A byte string is a sequence of bytes.   *)
(* The two components do not call each other; SpecUtf8 runs the validator  *)
(* and SpecClient runs the handshake.                                      *)
(***************************************************************************)
EXTENDS Integers, Sequences, FiniteSets

VARIABLES
    \* ---- utf8.rs: struct Validator
    partial_codepoint,      \* [u8; 4], indexed 1..4 here (0..3 in the source)
    partial_codepoint_len,  \* usize
    \* ---- utf8.rs: what the caller of feed observes
    result,                 \* result of the last feed: "none", "Ok", "InvalidUtf8"
    ub,                     \* TRUE once an unchecked operation left its contract
    \* ---- history of the current message (not program state)
    fed,                    \* bytes fed since the message began
    lastInput,              \* the chunk of the last feed call
    lastFinal,              \* is_complete of the last feed call
    okBefore,               \* every feed of this message before the last returned Ok
    allOk,                  \* every feed of this message returned Ok
    cleanStart,             \* the message began with partial_codepoint_len = 0
    pendingBefore,          \* partial_codepoint_len before the last feed call
    bytesFed,               \* bytes fed to the validator since construction
    classified,             \* the stored leading byte the last feed classified, or -1
    \* ---- a second validator, created when the first was last reset (or
    \*      created) and fed the same chunks since (not program state)
    fresh_codepoint,        \* its partial_codepoint
    fresh_len,              \* its partial_codepoint_len
    fresh_result,           \* what its last feed returned
    \* ---- client.rs: struct Builder
    uri,                    \* the parsed target
    connector,              \* Option<Connector>
    headers,                \* HeaderMap: sequence of [name, value], names unique
    added,                  \* history: the add_header calls made, in order
    \* ---- client.rs: one run of connect / connect_on
    stage,                  \* "builder", the suspension point, "done" or "dropped"
    entry,                  \* "none", "connect" or "connect_on"
    host,                   \* connect: let host
    port,                   \* connect: let port
    addr,                   \* connect: let addr
    taken,                  \* connect: what self.connector.take() returned
    applied,                \* connect: let connector (the one selected)
    stream,                 \* the stream the handshake runs on
    key_base64,             \* connect_on: let key_base64
    upgrade_codec,          \* connect_on: the key the upgrade codec was built with
    request,                \* connect_on: let request
    written,                \* bytes of request that write_all has written
    opt,                    \* connect_on: the item into_future returned
    framed,                 \* connect_on: the Framed into_future returned
    outcome,                \* what the caller got: none yet, Ok(stream) or Err(error)
    \* ---- history of the run (not program state)
    steps,                  \* the steps attempted, in order
    failed,                 \* the step that failed and the error it produced
    resolved,               \* what host resolution returned
    tried,                  \* the addresses TcpStream::connect was called with
    writes,                 \* number of writes write_all needed (counted to 2)
    sent_after,             \* what the peer sent after its response
    random_used             \* the values rand::random returned, in order

utf8vars == <<partial_codepoint, partial_codepoint_len, result, ub, fed, lastInput,
              lastFinal, okBefore, allOk, cleanStart, pendingBefore, bytesFed,
              classified, fresh_codepoint, fresh_len, fresh_result>>

buildervars == <<uri, connector, headers, added>>

runvars == <<stage, entry, host, port, addr, taken, applied, stream, key_base64,
             upgrade_codec, request, written, opt, framed, outcome, steps, failed,
             resolved, tried, writes, sent_after, random_used>>

clientvars == <<buildervars, runvars>>

vars == <<utf8vars, clientvars>>

-----------------------------------------------------------------------------
(* Bounds of the model *)

\* Bytes fed to one validator in a run, over all its messages.
MaxBytes == 4

\* Pieces of the request the stream takes in a short write; a write takes
\* this many or everything that is left.
ShortWrite == 16

\* Calls of add_header made on one builder: in the runs that build requests,
\* and in the runs that go through every step of connect.
MaxAdds == 3

MaxAddsConnect == 1

\* The bytes the chunks are built from: one of each class the validator
\* distinguishes.  65 'A'; 128 and 169 continuation bytes (169 is in A0..BF,
\* 128 is not); 195 a two-byte lead (C3); 224 a three-byte lead whose second
\* byte must be in A0..BF (E0); 240 a four-byte lead whose second byte must be
\* in 90..BF (F0); 255 never valid.
Bytes == {65, 128, 169, 195, 224, 240, 255}

RECURSIVE SeqsUpTo(_, _)
SeqsUpTo(S, n) ==
    IF n = 0 THEN {<<>>}
    ELSE LET shorter == SeqsUpTo(S, n - 1)
         IN  shorter \cup {Append(s, b) : s \in {t \in shorter : Len(t) = n - 1}, b \in S}

\* The chunks of each length.
ChunksOfLen == [n \in 0..MaxBytes |-> {c \in SeqsUpTo(Bytes, MaxBytes) : Len(c) = n}]

\* Bytes fed to one validator in a run of longer chunks, which are built from
\* fewer bytes: a continuation byte that may follow every leading byte, and a
\* leading byte of each length.
MaxLongBytes == 5

LongBytes == {169, 195, 224, 240}

LongChunksOfLen ==
    [n \in 0..MaxLongBytes |-> {c \in SeqsUpTo(LongBytes, MaxLongBytes) : Len(c) = n}]

Min(a, b) == IF a < b THEN a ELSE b

-----------------------------------------------------------------------------
(* simdutf8::{basic,compat}::from_utf8, as called by feed.  compat reports   *)
(* the error like std::str::from_utf8: valid_up_to, and error_len, which is  *)
(* None when the input ends inside a codepoint that is valid so far.         *)

IsCont(b) == b >= 128 /\ b <= 191

\* Length of the sequence a first byte announces; 0 for a byte that starts none.
Utf8Width(b) ==
    IF b < 128 THEN 1
    ELSE IF b >= 194 /\ b <= 223 THEN 2
    ELSE IF b >= 224 /\ b <= 239 THEN 3
    ELSE IF b >= 240 /\ b <= 244 THEN 4
    ELSE 0

\* The second byte of a sequence is restricted by the first (no overlong
\* forms, no surrogates, nothing above U+10FFFF).
SecondOk(first, b) ==
    IF first = 224 THEN b >= 160 /\ b <= 191
    ELSE IF first = 237 THEN b >= 128 /\ b <= 159
    ELSE IF first = 240 THEN b >= 144 /\ b <= 191
    ELSE IF first = 244 THEN b >= 128 /\ b <= 143
    ELSE IsCont(b)

\* error_len is an Option: has_error_len says whether it is Some(error_len).
Utf8Ok(n) == [ok |-> TRUE, valid_up_to |-> n, has_error_len |-> FALSE, error_len |-> 0]
Utf8Err(upto, elen) ==
    [ok |-> FALSE, valid_up_to |-> upto, has_error_len |-> TRUE, error_len |-> elen]
Utf8Incomplete(upto) ==
    [ok |-> FALSE, valid_up_to |-> upto, has_error_len |-> FALSE, error_len |-> 0]

\* Validation of s from position i (1-based); the i-1 bytes before are valid.
RECURSIVE Utf8Scan(_, _)
Utf8Scan(s, i) ==
    IF i > Len(s) THEN Utf8Ok(Len(s))
    ELSE LET w == Utf8Width(s[i])
         IN  IF w = 0 THEN Utf8Err(i - 1, 1)
             ELSE IF w = 1 THEN Utf8Scan(s, i + 1)
             ELSE IF i + 1 > Len(s) THEN Utf8Incomplete(i - 1)
             ELSE IF ~SecondOk(s[i], s[i + 1]) THEN Utf8Err(i - 1, 1)
             ELSE IF w = 2 THEN Utf8Scan(s, i + 2)
             ELSE IF i + 2 > Len(s) THEN Utf8Incomplete(i - 1)
             ELSE IF ~IsCont(s[i + 2]) THEN Utf8Err(i - 1, 2)
             ELSE IF w = 3 THEN Utf8Scan(s, i + 3)
             ELSE IF i + 3 > Len(s) THEN Utf8Incomplete(i - 1)
             ELSE IF ~IsCont(s[i + 3]) THEN Utf8Err(i - 1, 3)
             ELSE Utf8Scan(s, i + 4)

compat_from_utf8(s) == Utf8Scan(s, 1)

basic_from_utf8(s) == Utf8Scan(s, 1).ok

-----------------------------------------------------------------------------
(* utf8.rs: Validator *)

\* Validator::new
NewValidator ==
    [partial_codepoint |-> [i \in 1..4 |-> 0], partial_codepoint_len |-> 0]

\* complete_codepoint_len with the length of a two-byte codepoint off by one.
complete_codepoint_len_off_by_one(pc) ==
    LET b == pc[1]
    IN  IF b >= 0 /\ b <= 127 THEN {[len |-> 1, unreachable |-> FALSE]}
        ELSE IF b >= 192 /\ b <= 223 THEN {[len |-> 3, unreachable |-> FALSE]}
        ELSE IF b >= 224 /\ b <= 239 THEN {[len |-> 3, unreachable |-> FALSE]}
        ELSE IF b >= 240 /\ b <= 247 THEN {[len |-> 4, unreachable |-> FALSE]}
        ELSE {[len |-> n, unreachable |-> TRUE] : n \in 1..4}

\* Validator::complete_codepoint_len.  The last arm is unreachable_unchecked():
\* reaching it is undefined behaviour, modelled as any of the four lengths
\* together with the flag unreachable = TRUE.
complete_codepoint_len(pc) ==
    LET b == pc[1]
    IN  IF b >= 0 /\ b <= 127 THEN {[len |-> 1, unreachable |-> FALSE]}
        ELSE IF b >= 192 /\ b <= 223 THEN {[len |-> 2, unreachable |-> FALSE]}
        ELSE IF b >= 224 /\ b <= 239 THEN {[len |-> 3, unreachable |-> FALSE]}
        ELSE IF b >= 240 /\ b <= 247 THEN {[len |-> 4, unreachable |-> FALSE]}
        ELSE {[len |-> n, unreachable |-> TRUE] : n \in 1..4}

\* An outcome of feed: the fields of the validator after the call, the value
\* returned, and whether an unchecked operation was used outside its contract.
Outcome(pc, plen, res, bad) ==
    [partial_codepoint |-> pc, partial_codepoint_len |-> plen, result |-> res, ub |-> bad]

\* pc with src copied to the positions from+1 .. from+Len(src) (0-based range
\* from..from+Len(src) of the source); positions past the array are dropped
\* here and reported by the caller as undefined behaviour.
CopyInto(pc, from, src) ==
    [i \in 1..4 |-> IF i > from /\ i <= from + Len(src) THEN src[i - from] ELSE pc[i]]

\* feed_remaining keeping the tail after any error, definite or not.
feed_remaining_storing_on_error(pc, plen, remaining_bytes, is_complete, bad) ==
    IF is_complete
    THEN Outcome(pc, 0,
                 IF basic_from_utf8(remaining_bytes) THEN "Ok" ELSE "InvalidUtf8", bad)
    ELSE LET e == compat_from_utf8(remaining_bytes)
         IN  IF e.ok THEN Outcome(pc, plen, "Ok", bad)
             ELSE LET newlen == Len(remaining_bytes) - e.valid_up_to
                      tail   == SubSeq(remaining_bytes, e.valid_up_to + 1,
                                       Len(remaining_bytes))
                  IN  Outcome(CopyInto(pc, 0, SubSeq(tail, 1, Min(newlen, 4))),
                              newlen, "Ok", bad \/ newlen > 4)

\* feed_remaining validating a final chunk as it validates the others.
feed_remaining_tolerant_when_final(pc, plen, remaining_bytes, is_complete, bad) ==
    LET e == compat_from_utf8(remaining_bytes)
    IN  IF e.ok THEN Outcome(pc, plen, "Ok", bad)
        ELSE IF e.has_error_len THEN Outcome(pc, plen, "InvalidUtf8", bad)
        ELSE LET newlen == Len(remaining_bytes) - e.valid_up_to
                 tail   == SubSeq(remaining_bytes, e.valid_up_to + 1,
                                  Len(remaining_bytes))
             IN  Outcome(CopyInto(pc, 0, SubSeq(tail, 1, Min(newlen, 4))),
                         newlen, "Ok", bad \/ newlen > 4)

\* Lines 124-152 of feed: validate the rest of the input.
feed_remaining(pc, plen, remaining_bytes, is_complete, bad) ==
    IF is_complete
    THEN \* self.reset(), then the basic variant
         Outcome(pc, 0,
                 IF basic_from_utf8(remaining_bytes) THEN "Ok" ELSE "InvalidUtf8", bad)
    ELSE LET e == compat_from_utf8(remaining_bytes)
         IN  IF e.ok THEN Outcome(pc, plen, "Ok", bad)
             ELSE IF e.has_error_len THEN Outcome(pc, plen, "InvalidUtf8", bad)
             ELSE \* incomplete input: keep the tail
                  LET newlen == Len(remaining_bytes) - e.valid_up_to
                      tail   == SubSeq(remaining_bytes, e.valid_up_to + 1,
                                       Len(remaining_bytes))
                  IN  Outcome(CopyInto(pc, 0, SubSeq(tail, 1, Min(newlen, 4))),
                              newlen, "Ok", bad \/ newlen > 4)

\* feed_complete recording the completed length before it validates.
feed_complete_keeping_length(pc2, plen, buf, rest, is_complete, bad) ==
    IF ~basic_from_utf8(buf)
    THEN Outcome(pc2, Len(buf), "InvalidUtf8", bad)
    ELSE feed_remaining(pc2, 0, rest, is_complete, bad)

\* Lines 89-97 and 119-121 of feed: the chunk completes the stored codepoint.
\* buf is partial_codepoint[..codepoint_len_after_copy], rest is
\* input[bytes_to_copy..].
feed_complete(pc2, plen, buf, rest, is_complete, bad) ==
    IF ~basic_from_utf8(buf)
    THEN Outcome(pc2, plen, "InvalidUtf8", bad)
    ELSE feed_remaining(pc2, 0, rest, is_complete, bad)

\* feed_partial without the error_len().is_some() arm: every error of the
\* short buffer is taken for an incomplete codepoint.
feed_partial_deferring(pc2, plen, buf, rest, is_complete, bad) ==
    LET e == compat_from_utf8(buf)
    IN  IF e.ok THEN feed_remaining(pc2, 0, rest, is_complete, bad)
        ELSE Outcome(pc2, Len(buf), IF is_complete THEN "InvalidUtf8" ELSE "Ok", bad)

\* Lines 98-121 of feed: the chunk does not complete the stored codepoint.
feed_partial(pc2, plen, buf, rest, is_complete, bad) ==
    LET e == compat_from_utf8(buf)
    IN  IF e.ok THEN feed_remaining(pc2, 0, rest, is_complete, bad)
        ELSE IF e.has_error_len THEN Outcome(pc2, plen, "InvalidUtf8", bad)
        ELSE Outcome(pc2, Len(buf), IF is_complete THEN "InvalidUtf8" ELSE "Ok", bad)

\* feed_copy copying the whole chunk, not only the missing bytes.
feed_copy_without_min(pc, plen, input, is_complete, c) ==
    LET available_bytes == Len(input)
        underflow     == c.len < plen
        missing_bytes == c.len - plen
        enough        == ~underflow /\ available_bytes >= missing_bytes
        bytes_to_copy == available_bytes
        codepoint_len_after_copy == plen + bytes_to_copy
        bad  == c.unreachable \/ underflow \/ codepoint_len_after_copy > 4
        pc2  == CopyInto(pc, plen, SubSeq(input, 1, bytes_to_copy))
        buf  == [i \in 1..Min(codepoint_len_after_copy, 4) |-> pc2[i]]
        rest == SubSeq(input, bytes_to_copy + 1, Len(input))
    IN  IF enough
        THEN feed_complete(pc2, plen, buf, rest, is_complete, bad)
        ELSE feed_partial(pc2, plen, buf, rest, is_complete, bad)

\* Lines 77-121 of feed: copy the missing bytes and validate the stored
\* codepoint.  c is the value complete_codepoint_len returned.
feed_copy(pc, plen, input, is_complete, c) ==
    LET available_bytes == Len(input)
        underflow     == c.len < plen
        \* usize subtraction: on underflow a release build wraps to a value
        \* above every chunk length (a debug build panics)
        missing_bytes == c.len - plen
        enough        == ~underflow /\ available_bytes >= missing_bytes
        bytes_to_copy == IF underflow THEN available_bytes
                         ELSE Min(available_bytes, missing_bytes)
        codepoint_len_after_copy == plen + bytes_to_copy
        bad  == c.unreachable \/ underflow \/ codepoint_len_after_copy > 4
        pc2  == CopyInto(pc, plen, SubSeq(input, 1, bytes_to_copy))
        buf  == [i \in 1..Min(codepoint_len_after_copy, 4) |-> pc2[i]]
        rest == SubSeq(input, bytes_to_copy + 1, Len(input))
    IN  IF enough
        THEN feed_complete(pc2, plen, buf, rest, is_complete, bad)
        ELSE feed_partial(pc2, plen, buf, rest, is_complete, bad)

\* feed_pending returning early on every empty chunk, final or not.
feed_pending_empty_is_noop(pc, plen, input, is_complete, c) ==
    IF Len(input) = 0
    THEN Outcome(pc, plen, "Ok", FALSE)
    ELSE feed_copy(pc, plen, input, is_complete, c)

\* feed_pending taking an empty chunk for the end of the message.
feed_pending_empty_ends_message(pc, plen, input, is_complete, c) ==
    feed_copy(pc, plen, input, is_complete \/ Len(input) = 0, c)

\* Lines 70-121 of feed: a partial codepoint is stored.
feed_pending(pc, plen, input, is_complete, c) ==
    IF Len(input) = 0 /\ ~is_complete
    THEN Outcome(pc, plen, "Ok", FALSE)
    ELSE feed_copy(pc, plen, input, is_complete, c)

\* Validator::feed: the set of outcomes of feed(input, is_complete) on a
\* validator with fields pc, plen (one outcome unless behaviour is undefined).
feed(pc, plen, input, is_complete) ==
    IF plen = 0
    THEN {feed_remaining(pc, plen, input, is_complete, FALSE)}
    ELSE {feed_pending(pc, plen, input, is_complete, c) : c \in complete_codepoint_len(pc)}

\* reset leaving the pending length as it is.
reset_keeping_pending(plen) == plen

\* Validator::reset
reset(plen) == 0

-----------------------------------------------------------------------------
(* client.rs: values *)

\* Option<T>
None == [some |-> FALSE]
Some(x) == [some |-> TRUE, val |-> x]

\* Result<T, Error> of a step
Ok(x) == [tag |-> "Ok", val |-> x]
Err(e) == [tag |-> "Err", error |-> e]

\* crate::Error kinds named in client.rs
CannotResolveHost == [kind |-> "CannotResolveHost"]
NoUpgradeResponse == [kind |-> "NoUpgradeResponse"]

\* An std::io::Error produced by the operation `at`.
IoError(at) == [kind |-> "io::Error", at |-> at]

\* impl From<std::io::Error> for Error, used by every `?` on an I/O result:
\* the I/O error is passed through unchanged inside the crate's error type.
ErrorFromIo(e) == [kind |-> "Io", source |-> e]

\* The targets: http::Uri in its three forms.  An absolute URI has a scheme
\* and an authority; the authority form has a host and no scheme and an empty
\* path; the origin form has only path and query.
Schemes == {"ws", "wss", "http", "https", "ftp"}
Ports == {80, 443, 8080}
OptPorts == {None} \cup {Some(p) : p \in Ports}
OptQueries == {None, Some("x=1")}

Uris ==
    {[scheme |-> Some(sc), host |-> Some("example.com"), port |-> po,
      path |-> "/chat", query |-> q] : sc \in Schemes, po \in OptPorts, q \in OptQueries}
    \cup {[scheme |-> None, host |-> Some("example.com"), port |-> po,
           path |-> "", query |-> None] : po \in OptPorts}
    \cup {[scheme |-> None, host |-> None, port |-> None,
           path |-> "/chat", query |-> q] : q \in OptQueries}

\* Extra headers a caller adds.
HeaderNames == {"origin", "host"}
HeaderValues == {"a", "b"}

\* The 16 random bytes rand::random may return.
RandomKeys == {[i \in 1..16 |-> 0], [i \in 1..16 |-> (i * 37) % 256]}

\* What the resolver may return: an I/O error or a list of addresses.
Ips == {"192.0.2.1", "192.0.2.2"}
IpLists == {<<>>, <<"192.0.2.1">>, <<"192.0.2.2", "192.0.2.1">>}
ResolveOutcomes ==
    {[io_error |-> TRUE, ips |-> <<>>]} \cup {[io_error |-> FALSE, ips |-> l] : l \in IpLists}

\* What the upgrade codec's stream may yield first: nothing (end of stream),
\* a response it accepted, or an error item.
ResponseItems ==
    {None, Some(Ok("Response")), Some(Err([kind |-> "Upgrade"])),
     Some(Err(ErrorFromIo(IoError("read"))))}

\* What the peer may send after its response: frames of the connection.
PeerAfter == {<<>>, <<"frame1">>, <<"frame1", "frame2">>}

-----------------------------------------------------------------------------
(* client.rs: functions *)

Base64Chars ==
    <<"A", "B", "C", "D", "E", "F", "G", "H", "I", "J", "K", "L", "M", "N", "O", "P",
      "Q", "R", "S", "T", "U", "V", "W", "X", "Y", "Z", "a", "b", "c", "d", "e", "f",
      "g", "h", "i", "j", "k", "l", "m", "n", "o", "p", "q", "r", "s", "t", "u", "v",
      "w", "x", "y", "z", "0", "1", "2", "3", "4", "5", "6", "7", "8", "9", "+", "/">>

\* base64::encode_config_slice(.., base64::STANDARD, ..): three bytes give
\* four characters, the last group is padded with '='.
RECURSIVE Base64(_)
Base64(bytes) ==
    LET ch(n) == Base64Chars[n + 1]
        n == Len(bytes)
    IN  IF n = 0 THEN <<>>
        ELSE IF n = 1
        THEN <<ch(bytes[1] \div 4), ch((bytes[1] % 4) * 16), "=", "=">>
        ELSE IF n = 2
        THEN <<ch(bytes[1] \div 4), ch((bytes[1] % 4) * 16 + bytes[2] \div 16),
               ch((bytes[2] % 16) * 4), "=">>
        ELSE <<ch(bytes[1] \div 4), ch((bytes[1] % 4) * 16 + bytes[2] \div 16),
               ch((bytes[2] % 16) * 4 + bytes[3] \div 64), ch(bytes[3] % 64)>>
             \o Base64(SubSeq(bytes, 4, n))

\* make_key: the contents of key_base64 afterwards; random is what
\* rand::random returns when no key is given.
make_key(key, random) ==
    LET key_bytes == IF key.some THEN key.val ELSE random
    IN  Base64(key_bytes)

\* default_port looking at the scheme before the explicit port.
default_port_scheme_first(u) ==
    IF u.scheme = Some("https") \/ u.scheme = Some("wss") THEN Some(443)
    ELSE IF u.scheme = Some("http") \/ u.scheme = Some("ws") THEN Some(80)
    ELSE IF u.port.some THEN Some(u.port.val)
    ELSE None

\* default_port
default_port(u) ==
    IF u.port.some THEN Some(u.port.val)
    ELSE IF u.scheme = Some("https") \/ u.scheme = Some("wss") THEN Some(443)
    ELSE IF u.scheme = Some("http") \/ u.scheme = Some("ws") THEN Some(80)
    ELSE None

\* u16::to_string: the decimal digits, one character each.
DigitChars == <<"0", "1", "2", "3", "4", "5", "6", "7", "8", "9">>

RECURSIVE to_string(_)
to_string(n) ==
    IF n < 10 THEN <<DigitChars[n + 1]>>
    ELSE Append(to_string(n \div 10), DigitChars[(n % 10) + 1])

\* host_line writing the port only when the target names one.
host_line_explicit_port_only(u) ==
    IF u.host.some
    THEN <<"Host: ", u.host.val>>
         \o (IF u.port.some THEN <<":">> \o to_string(u.port.val) ELSE <<>>)
         \o <<"\r\n">>
    ELSE <<>>

\* build_request, lines 48-58: the Host line.
host_line(u) ==
    IF u.host.some
    THEN <<"Host: ", u.host.val>>
         \o (IF default_port(u).some THEN <<":">> \o to_string(default_port(u).val)
             ELSE <<>>)
         \o <<"\r\n">>
    ELSE <<>>

\* build_request, lines 64-69: one line per extra header, in iteration order.
RECURSIVE header_lines(_)
header_lines(hs) ==
    IF hs = <<>> THEN <<>>
    ELSE <<Head(hs).name, ": ", Head(hs).value, "\r\n">> \o header_lines(Tail(hs))

\* build_request: the bytes of the request, as the sequence of pieces
\* appended to buf (the digits of the port and the characters of the key are
\* one piece each).
build_request(u, key, hs) ==
    <<"GET ", u.path>>
    \o (IF u.query.some THEN <<"?", u.query.val>> ELSE <<>>)
    \o <<" HTTP/1.1\r\n">>
    \o host_line(u)
    \o <<"Upgrade: websocket\r\nConnection: Upgrade\r\nSec-WebSocket-Key: ">>
    \o key
    \o <<"\r\nSec-WebSocket-Version: 13\r\n">>
    \o header_lines(hs)
    \o <<"\r\n">>

\* resolve: the first address the resolver returned; r is what
\* to_socket_addrs did.
resolve(h, p, r) ==
    IF r.io_error THEN Err(ErrorFromIo(IoError("to_socket_addrs")))
    ELSE IF r.ips = <<>> THEN Err(CannotResolveHost)
    ELSE Ok([ip |-> Head(r.ips), port |-> p])

\* header_insert moving a name that is set again to the end.
header_insert_moving_to_end(hs, name, value) ==
    LET others == {i \in 1..Len(hs) : hs[i].name # name}
        kept   == [k \in 1..Cardinality(others) |->
                      hs[CHOOSE i \in others : Cardinality({j \in others : j <= i}) = k]]
    IN  Append(kept, [name |-> name, value |-> value])

\* HeaderMap::insert as used by add_header: a new name is appended, the value
\* of a name already present is replaced where it stands.
header_insert(hs, name, value) ==
    IF \E i \in 1..Len(hs) : hs[i].name = name
    THEN [i \in 1..Len(hs) |->
             IF hs[i].name = name THEN [name |-> name, value |-> value] ELSE hs[i]]
    ELSE Append(hs, [name |-> name, value |-> value])

\* host_of falling back to an empty host name instead of failing.
host_of_defaulting(u) == IF u.host.some THEN Ok(u.host.val) ELSE Ok("")

\* connect, line 133
host_of(u) == IF u.host.some THEN Ok(u.host.val) ELSE Err(CannotResolveHost)

\* connect, line 134
port_of(u) == IF default_port(u).some THEN default_port(u).val ELSE 80

\* connect, lines 139-145: the connector to apply.  "New" is Connector::new(),
\* the encrypting connector built for this connection.
select_connector(c, u) ==
    IF c.some THEN c.val
    ELSE IF u.scheme = Some("wss") THEN "New"
    ELSE "Plain"

\* write_all_done as if write were called in place of write_all: done after
\* the first write, however short.
write_all_done_after_first_write(n, req) == n > 0

\* connect_on, line 169: write_all returns Ok once every byte is written.
write_all_done(n, req) == n = Len(req)

\* response_result reporting an error item as a missing response.
response_result_swallowing_error(o) ==
    IF ~o.some \/ o.val.tag = "Err" THEN Err(NoUpgradeResponse)
    ELSE Ok(o.val.val)

\* connect_on, line 172: opt.ok_or(Error::NoUpgradeResponse)??
response_result(o) ==
    IF ~o.some THEN Err(NoUpgradeResponse)
    ELSE IF o.val.tag = "Err" THEN Err(o.val.error)
    ELSE Ok(o.val.val)

\* upgrade::Codec::decode on a buffer that starts with a response it accepts:
\* the response is taken off the front, what follows it stays in the buffer.
upgrade_decode(buf) == Tail(buf)

\* connect_on, line 171: upgrade_codec.framed(stream).into_future() on stream
\* s.  The Framed reads from the stream into its buffer until the codec yields
\* an item or the stream ends; `after` is what the peer sent behind the
\* response and k how much of it arrived in the reads that brought the
\* response.  The Framed keeps what it read and the codec did not take; the
\* rest is still in the stream.
into_future(s, codec, item, after, k) ==
    LET read == IF item.some THEN <<"response">> \o SubSeq(after, 1, k) ELSE <<>>
    IN  [opt |-> item,
         framed |-> [io |-> s, codec |-> codec,
                     read_buf |-> IF item = Some(Ok("Response"))
                                  THEN upgrade_decode(read) ELSE read,
                     unread |-> SubSeq(after, k + 1, Len(after))]]

\* connect_on, line 174
from_framed(fr, role) == [framed |-> fr, role |-> role]

\* upgraded giving the frame codec a new Framed around the stream alone.
upgraded_reframing(fr) ==
    Ok(from_framed([fr EXCEPT !.read_buf = <<>>], "Client"))

\* connect_on, line 174: what connect_on returns after an accepted response.
upgraded(fr) == Ok(from_framed(fr, "Client"))

-----------------------------------------------------------------------------
(* The validator driven by a caller: any chunks, any is_complete, reset at   *)
(* any time.  A message begins at construction, at reset, and at the feed    *)
(* that follows a feed with is_complete = true.                              *)

\* Validator::new, before any call
ValidatorNew ==
    /\ partial_codepoint = NewValidator.partial_codepoint
    /\ partial_codepoint_len = NewValidator.partial_codepoint_len
    /\ result = "none"
    /\ ub = FALSE
    /\ fed = <<>>
    /\ lastInput = <<>>
    /\ lastFinal = FALSE
    /\ okBefore = TRUE
    /\ allOk = TRUE
    /\ cleanStart = TRUE
    /\ pendingBefore = 0
    /\ bytesFed = 0
    /\ classified = -1
    /\ fresh_codepoint = NewValidator.partial_codepoint
    /\ fresh_len = NewValidator.partial_codepoint_len
    /\ fresh_result = "none"

\* Builder::from_uri
BuilderNew(u) ==
    /\ uri = u
    /\ connector = None
    /\ headers = <<>>
    /\ added = <<>>

\* No connect or connect_on has been called.
RunIdle ==
    /\ stage = "builder"
    /\ entry = "none"
    /\ host = None
    /\ port = None
    /\ addr = None
    /\ taken = None
    /\ applied = None
    /\ stream = None
    /\ key_base64 = <<>>
    /\ upgrade_codec = None
    /\ request = <<>>
    /\ written = 0
    /\ opt = None
    /\ framed = None
    /\ outcome = [tag |-> "none"]
    /\ steps = <<>>
    /\ failed = None
    /\ resolved = None
    /\ tried = <<>>
    /\ writes = 0
    /\ sent_after = <<>>
    /\ random_used = <<>>

\* The validator is used on its own; no builder is at work.
InitUtf8 ==
    /\ ValidatorNew
    /\ BuilderNew([scheme |-> Some("ws"), host |-> Some("example.com"), port |-> None,
                   path |-> "/chat", query |-> None])
    /\ RunIdle

\* feed(input, is_complete) called in a run of at most `budget` bytes.
FeedWithin(input, is_complete, budget) ==
    LET begins == lastFinal
        before == IF begins THEN <<>> ELSE fed
    IN  /\ ~ub
        /\ bytesFed + Len(input) <= budget
        /\ bytesFed' = bytesFed + Len(input)
        /\ \E out \in feed(partial_codepoint, partial_codepoint_len, input, is_complete) :
            /\ partial_codepoint' = out.partial_codepoint
            /\ partial_codepoint_len' = out.partial_codepoint_len
            /\ result' = out.result
            /\ ub' = out.ub
            /\ okBefore' = (begins \/ allOk)
            /\ allOk' = ((begins \/ allOk) /\ out.result = "Ok")
        /\ fed' = before \o input
        /\ lastInput' = input
        /\ lastFinal' = is_complete
        /\ cleanStart' = IF begins THEN partial_codepoint_len = 0 ELSE cleanStart
        /\ pendingBefore' = partial_codepoint_len
        /\ classified' = IF partial_codepoint_len = 0 \/ (Len(input) = 0 /\ ~is_complete)
                         THEN -1
                         ELSE partial_codepoint[1]
        /\ \E sh \in feed(fresh_codepoint, fresh_len, input, is_complete) :
            /\ fresh_codepoint' = sh.partial_codepoint
            /\ fresh_len' = sh.partial_codepoint_len
            /\ fresh_result' = sh.result
        /\ UNCHANGED clientvars

Feed(input, is_complete) == FeedWithin(input, is_complete, MaxBytes)

Reset ==
    /\ ~ub
    /\ partial_codepoint_len' = reset(partial_codepoint_len)
    /\ UNCHANGED <<partial_codepoint, ub, bytesFed>>
    /\ result' = "none"
    /\ fed' = <<>>
    /\ lastInput' = <<>>
    /\ lastFinal' = FALSE
    /\ okBefore' = TRUE
    /\ allOk' = TRUE
    /\ cleanStart' = TRUE
    /\ pendingBefore' = 0
    /\ classified' = -1
    /\ fresh_codepoint' = NewValidator.partial_codepoint
    /\ fresh_len' = NewValidator.partial_codepoint_len
    /\ fresh_result' = "none"
    /\ UNCHANGED clientvars

NextUtf8 ==
    \/ \E n \in 0..(MaxBytes - bytesFed) :
          \E input \in ChunksOfLen[n], is_complete \in BOOLEAN : Feed(input, is_complete)
    \/ Reset

SpecUtf8 == InitUtf8 /\ [][NextUtf8]_vars

\* The validator fed longer chunks: a chunk may bring more bytes than the
\* buffer has room for.
NextUtf8Long ==
    \/ \E n \in 0..(MaxLongBytes - bytesFed) :
          \E input \in LongChunksOfLen[n], is_complete \in BOOLEAN :
             FeedWithin(input, is_complete, MaxLongBytes)
    \/ Reset

SpecUtf8Long == InitUtf8 /\ [][NextUtf8Long]_vars

-----------------------------------------------------------------------------
(* The handshake: a builder is set up, then consumed by connect or by        *)
(* connect_on.  Each action runs the code from one suspension point to the   *)
(* next; what the resolver, the network and the peer do is chosen by \E.     *)

InitClient ==
    /\ ValidatorNew
    /\ \E u \in Uris : BuilderNew(u)
    /\ RunIdle

\* The step `step` failed with error e: connect returns Err(e).
Fail(step, e) ==
    /\ failed' = Some([step |-> step, error |-> e])
    /\ outcome' = Err(e)
    /\ stage' = "done"

\* Builder::set_connector
SetConnector ==
    /\ stage = "builder"
    /\ connector' = Some("User")
    /\ UNCHANGED <<uri, headers, added, runvars, utf8vars>>

\* Builder::add_header, called at most `most` times on one builder
AddHeaderWithin(name, value, most) ==
    /\ stage = "builder"
    /\ Len(added) < most
    /\ headers' = header_insert(headers, name, value)
    /\ added' = Append(added, [name |-> name, value |-> value])
    /\ UNCHANGED <<uri, connector, runvars, utf8vars>>

AddHeader(name, value) == AddHeaderWithin(name, value, MaxAdds)

\* connect, lines 133-135, up to the await of resolve
Connect ==
    /\ stage = "builder"
    /\ entry' = "connect"
    /\ LET h == host_of(uri)
       IN  IF h.tag = "Err"
           THEN /\ steps' = <<"host">>
                /\ Fail("host", h.error)
                /\ UNCHANGED <<host, port>>
           ELSE /\ host' = Some(h.val)
                /\ port' = Some(port_of(uri))
                /\ steps' = <<"host", "port", "resolve">>
                /\ stage' = "resolve"
                /\ UNCHANGED <<failed, outcome>>
    /\ UNCHANGED <<buildervars, addr, taken, applied, stream, key_base64, random_used,
                   upgrade_codec, request, written, opt, framed, sent_after, resolved,
                   tried, writes, utf8vars>>

\* connect, lines 135-137: resolve returns, TcpStream::connect is called
ResolveDone(r) ==
    /\ stage = "resolve"
    /\ resolved' = Some(r)
    /\ LET a == resolve(host.val, port.val, r)
       IN  IF a.tag = "Err"
           THEN /\ Fail("resolve", a.error)
                /\ UNCHANGED <<addr, tried, steps>>
           ELSE /\ addr' = Some(a.val)
                /\ tried' = Append(tried, a.val)
                /\ steps' = Append(steps, "tcp")
                /\ stage' = "tcp"
                /\ UNCHANGED <<failed, outcome>>
    /\ UNCHANGED <<buildervars, entry, host, port, taken, applied, stream, key_base64,
                   random_used, upgrade_codec, request, written, opt, framed, sent_after,
                   writes, utf8vars>>

\* connect, lines 137-147: TcpStream::connect returns, the connector is
\* selected (self.connector.take()) and wrap is called
TcpDone(connected, created) ==
    /\ stage = "tcp"
    /\ IF ~connected
       THEN /\ Fail("tcp", ErrorFromIo(IoError("TcpStream::connect")))
            /\ UNCHANGED <<connector, taken, applied, stream, steps>>
       ELSE LET c == select_connector(connector, uri)
            IN  /\ connector' = None
                /\ taken' = connector
                /\ IF c = "New" /\ ~created
                   THEN /\ Fail("connector", [kind |-> "Connector::new"])
                        /\ steps' = Append(steps, "connector")
                        /\ UNCHANGED <<applied, stream>>
                   ELSE /\ applied' = Some(c)
                        /\ stream' = Some([wrapped_by |-> "none", peer |-> addr.val])
                        /\ steps' = steps \o <<"connector", "wrap">>
                        /\ stage' = "wrap"
                        /\ UNCHANGED <<failed, outcome>>
    /\ UNCHANGED <<uri, headers, added, entry, host, port, addr, key_base64, random_used,
                   upgrade_codec, request, written, opt, framed, sent_after, resolved,
                   tried, writes, utf8vars>>

\* BeginConnectOn building the upgrade codec from the key buffer before
\* make_key has filled it.
BeginConnectOn_codec_before_key(s, random) ==
    LET key == make_key(None, random)
    IN  /\ stream' = Some(s)
        /\ key_base64' = key
        /\ random_used' = Append(random_used, random)
        /\ upgrade_codec' = Some([i \in 1..24 |-> "NUL"])
        /\ request' = build_request(uri, key, headers)
        /\ written' = 0
        /\ steps' = Append(steps, "write")
        /\ stage' = "write"

\* connect_on, lines 164-169, up to the await of write_all on stream s
BeginConnectOn(s, random) ==
    LET key == make_key(None, random)
    IN  /\ stream' = Some(s)
        /\ key_base64' = key
        /\ random_used' = Append(random_used, random)
        /\ upgrade_codec' = Some(key)
        /\ request' = build_request(uri, key, headers)
        /\ written' = 0
        /\ steps' = Append(steps, "write")
        /\ stage' = "write"

\* connect, lines 147-149: wrap returns, connect_on is entered
WrapDone(wrapped, random) ==
    /\ stage = "wrap"
    /\ IF ~wrapped
       THEN /\ Fail("wrap", [kind |-> "Connector::wrap"])
            /\ UNCHANGED <<stream, key_base64, random_used, upgrade_codec, request,
                           written, steps>>
       ELSE /\ BeginConnectOn([wrapped_by |-> applied.val, peer |-> stream.val.peer], random)
            /\ UNCHANGED <<failed, outcome>>
    /\ UNCHANGED <<buildervars, entry, host, port, addr, taken, applied, opt, framed,
                   sent_after, resolved, tried, writes, utf8vars>>

\* connect_on called by the user with a stream of their own
ConnectOn(random) ==
    /\ stage = "builder"
    /\ entry' = "connect_on"
    /\ BeginConnectOn([wrapped_by |-> "caller", peer |-> "caller"], random)
    /\ UNCHANGED <<buildervars, host, port, addr, taken, applied, opt, framed, sent_after,
                   outcome, failed, resolved, tried, writes, utf8vars>>

\* connect_on, line 169: one write of write_all takes n bytes, or fails (an
\* error, or a write of zero bytes)
Write(n, good) ==
    /\ stage = "write"
    /\ IF ~good
       THEN /\ Fail("write", ErrorFromIo(IoError("write_all")))
            /\ UNCHANGED <<written, writes, steps>>
       ELSE /\ n >= 1
            /\ n <= Len(request) - written
            /\ written' = written + n
            /\ writes' = Min(writes + 1, 2)
            /\ IF write_all_done(written + n, request)
               THEN stage' = "read" /\ steps' = Append(steps, "read")
               ELSE UNCHANGED <<stage, steps>>
            /\ UNCHANGED <<failed, outcome>>
    /\ UNCHANGED <<buildervars, entry, host, port, addr, taken, applied, stream,
                   key_base64, random_used, upgrade_codec, request, opt, framed,
                   sent_after, resolved, tried, utf8vars>>

\* connect_on, lines 171-174: into_future returns the first item of the
\* framed stream, or none
ReadDone(item, after, k) ==
    /\ stage = "read"
    /\ sent_after' = after
    /\ LET got == into_future(stream.val, upgrade_codec.val, item, after, k)
           r   == response_result(got.opt)
       IN  /\ opt' = got.opt
           /\ framed' = Some(got.framed)
           /\ IF r.tag = "Err"
              THEN Fail("read", r.error)
              ELSE /\ outcome' = upgraded(got.framed)
                   /\ stage' = "done"
                   /\ UNCHANGED failed
    /\ UNCHANGED <<buildervars, entry, host, port, addr, taken, applied, stream, key_base64,
                   random_used, upgrade_codec, request, written, steps, resolved, tried,
                   writes, utf8vars>>

\* The future returned by connect or connect_on is dropped at an await.
Drop ==
    /\ stage \in {"resolve", "tcp", "wrap", "write", "read"}
    /\ stage' = "dropped"
    /\ UNCHANGED <<buildervars, entry, host, port, addr, taken, applied, stream,
                   key_base64, random_used, upgrade_codec, request, written, opt, framed,
                   sent_after, outcome, steps, failed, resolved, tried, writes, utf8vars>>

NextClient ==
    \/ SetConnector
    \/ \E name \in HeaderNames, value \in HeaderValues :
          AddHeaderWithin(name, value, MaxAddsConnect)
    \/ Connect
    \/ \E r \in ResolveOutcomes : ResolveDone(r)
    \/ \E connected \in BOOLEAN, created \in BOOLEAN : TcpDone(connected, created)
    \/ \E wrapped \in BOOLEAN, random \in RandomKeys : WrapDone(wrapped, random)
    \/ \E random \in RandomKeys : ConnectOn(random)
    \/ \E n \in {ShortWrite, Len(request) - written}, good \in BOOLEAN : Write(n, good)
    \/ \E item \in ResponseItems, after \in PeerAfter :
          \E k \in 0..Len(after) :
             /\ item # Some(Ok("Response")) => after = <<>>
             /\ ReadDone(item, after, k)
    \/ Drop

SpecClient == InitClient /\ [][NextClient]_vars

\* The handshake on a stream of the caller, after more calls of add_header.
NextRequest ==
    \/ \E name \in HeaderNames, value \in HeaderValues : AddHeader(name, value)
    \/ \E random \in RandomKeys : ConnectOn(random)
    \/ \E n \in {ShortWrite, Len(request) - written}, good \in BOOLEAN : Write(n, good)
    \/ \E item \in ResponseItems, after \in PeerAfter :
          \E k \in 0..Len(after) :
             /\ item # Some(Ok("Response")) => after = <<>>
             /\ ReadDone(item, after, k)
    \/ Drop

SpecRequest == InitClient /\ [][NextRequest]_vars

-----------------------------------------------------------------------------
(* UTF-8 as the Unicode standard defines it, for stating the claims: a byte  *)
(* string is valid when it is a concatenation of encodings of scalar values. *)

\* seg is the shortest-form encoding of one Unicode scalar value.
IsScalarEncoding(seg) ==
    LET n == Len(seg)
        x(i) == seg[i] - 128
    IN  IF n = 1 THEN seg[1] < 128
        ELSE IF n = 2
        THEN /\ seg[1] >= 192 /\ seg[1] <= 223 /\ IsCont(seg[2])
             /\ (seg[1] - 192) * 64 + x(2) >= 128
        ELSE IF n = 3
        THEN /\ seg[1] >= 224 /\ seg[1] <= 239 /\ IsCont(seg[2]) /\ IsCont(seg[3])
             /\ LET cp == (seg[1] - 224) * 4096 + x(2) * 64 + x(3)
                IN  cp >= 2048 /\ ~(cp >= 55296 /\ cp <= 57343)
        ELSE IF n = 4
        THEN /\ seg[1] >= 240 /\ seg[1] <= 247
             /\ IsCont(seg[2]) /\ IsCont(seg[3]) /\ IsCont(seg[4])
             /\ LET cp == (seg[1] - 240) * 262144 + x(2) * 4096 + x(3) * 64 + x(4)
                IN  cp >= 65536 /\ cp <= 1114111
        ELSE FALSE

RECURSIVE WellFormed(_)
WellFormed(s) ==
    \/ s = <<>>
    \/ \E n \in 1..Min(4, Len(s)) :
          /\ IsScalarEncoding(SubSeq(s, 1, n))
          /\ WellFormed(SubSeq(s, n + 1, Len(s)))

\* Continuation bytes enough to complete every completable prefix: 128 after
\* ED and F4, 144 after F0, 160 after E0, any of them elsewhere.
Completions == SeqsUpTo({128, 144, 160}, 3) \ {<<>>}

\* t is 1 to len-1 first bytes of the len-byte encoding of some scalar value.
IsProperPrefix(t) ==
    /\ Len(t) >= 1 /\ Len(t) <= 3
    /\ \E ext \in Completions : Len(t) + Len(ext) <= 4 /\ IsScalarEncoding(t \o ext)

\* The number of bytes of s after its last complete codepoint when s is valid
\* text followed by a proper prefix of a codepoint; 0 when s is not of that form.
IncompleteTailLen(s) ==
    LET ks == {k \in 1..Min(3, Len(s)) :
                  /\ WellFormed(SubSeq(s, 1, Len(s) - k))
                  /\ IsProperPrefix(SubSeq(s, Len(s) - k + 1, Len(s)))}
    IN  IF ks = {} THEN 0 ELSE CHOOSE k \in ks : TRUE

EndsInsideCodepoint(s) == IncompleteTailLen(s) > 0

\* s is a prefix of some valid UTF-8 string.
ViablePrefix(s) == WellFormed(s) \/ EndsInsideCodepoint(s)

\* The last call was a feed of a message that began with no pending codepoint
\* and whose earlier feeds all returned Ok.
FedCleanly == result # "none" /\ cleanStart /\ okBefore

-----------------------------------------------------------------------------
(* Claims about the validator *)

C3_RejectsAtOffendingCall ==
    (FedCleanly /\ ~lastFinal) => (result = "InvalidUtf8" <=> ~ViablePrefix(fed))

\* C3 witness: the leading byte E0 came in one chunk, the byte 80 that cannot
\* follow it in the next, and that feed is rejected.
C3_Witness ==
    /\ FedCleanly /\ ~lastFinal
    /\ fed = <<224, 128>>
    /\ lastInput = <<128>>
    /\ pendingBefore = 1
    /\ result = "InvalidUtf8"

C4_ShapeTail ==
    /\ FedCleanly /\ lastFinal /\ pendingBefore = 0
    /\ lastInput = <<65, 240, 169, 128>>
    /\ result = "InvalidUtf8"

\* C4 shapes: a prefix is pending and the final chunk brings too few bytes.
C4_ShapeTooFew ==
    /\ FedCleanly /\ lastFinal /\ pendingBefore = 1
    /\ fed = <<240, 169, 128>>
    /\ lastInput = <<169, 128>>
    /\ result = "InvalidUtf8"

C4_ShapeCompleted ==
    /\ FedCleanly /\ lastFinal /\ pendingBefore = 1
    /\ fed = <<195, 169>>
    /\ result = "Ok"

-----------------------------------------------------------------------------
(* Reading a request back, for stating the claims *)

\* The pieces of the Host line of req, from "Host: " to the end of the line;
\* empty when req has no Host line.
HostLine(req) ==
    LET starts == {i \in 1..Len(req) : req[i] = "Host: "}
    IN  IF starts = {} THEN <<>>
        ELSE LET i == CHOOSE k \in starts : \A m \in starts : k <= m
                 j == CHOOSE k \in i..Len(req) :
                         /\ req[k] = "\r\n"
                         /\ \A m \in i..(k - 1) : req[m] # "\r\n"
             IN  SubSeq(req, i, j)

\* What follows the host on the Host line: nothing, or ":" and the port.
PortSuffix(req) == SubSeq(HostLine(req), 3, Len(HostLine(req)) - 1)

\* The number a sequence of decimal digits denotes.
RECURSIVE ParseDec(_)
ParseDec(ds) ==
    IF ds = <<>> THEN 0
    ELSE 10 * ParseDec(SubSeq(ds, 1, Len(ds) - 1))
         + (CHOOSE d \in 0..9 : DigitChars[d + 1] = ds[Len(ds)])

\* s is ":" followed by the decimal numeral of p, without leading zeros.
IsPortSuffix(s, p) ==
    /\ Len(s) >= 2
    /\ s[1] = ":"
    /\ \A i \in 2..Len(s) : \E d \in 0..9 : DigitChars[d + 1] = s[i]
    /\ (Len(s) > 2 => s[2] # "0")
    /\ ParseDec(Tail(s)) = p

RequestBuilt == request # <<>>

SchemeIn(names) == uri.scheme.some /\ uri.scheme.val \in names

IsPrefixOf(s, t) == Len(s) <= Len(t) /\ s = SubSeq(t, 1, Len(s))

\* The steps of connect, in program order.
StepOrder == <<"host", "port", "resolve", "tcp", "connector", "wrap", "write", "read">>

\* into_future has returned and connect_on has finished.
ReadReturned == stage = "done" /\ steps # <<>> /\ steps[Len(steps)] = "read"

-----------------------------------------------------------------------------
(* Claims about the handshake *)

\* C2: a WebSocket stream is returned only after the whole request was
\* written and one response was read and accepted by the upgrade codec; a run
\* in which a step failed, or that was dropped at an await, returns no stream.
C2_StreamOnlyAfterHandshake ==
    /\ outcome.tag = "Ok" =>
          /\ stage = "done"
          /\ RequestBuilt
          /\ request[Len(request)] = "\r\n"
          /\ written = Len(request)
          /\ opt = Some(Ok("Response"))
          /\ Cardinality({i \in 1..Len(steps) : steps[i] = "read"}) = 1
          /\ ~failed.some
    /\ (failed.some \/ stage = "dropped") => outcome.tag # "Ok"

\* C2 witness: connect_on returned a stream after write_all needed two writes.
C2_Witness ==
    /\ entry = "connect_on"
    /\ outcome.tag = "Ok"
    /\ writes = 2

\* C5: connect_on returns NoUpgradeResponse exactly when, the request being
\* written, the response stream ended without an item; an error item is
\* returned as it is.
C5_NoUpgradeResponse ==
    /\ outcome = Err(NoUpgradeResponse) <=> (ReadReturned /\ ~opt.some)
    /\ ReadReturned => written = Len(request)
    /\ (ReadReturned /\ opt.some /\ opt.val.tag = "Err") => outcome = Err(opt.val.error)

\* C5 witness: the stream given to connect_on closed before any response.
C5_Witness ==
    /\ entry = "connect_on"
    /\ ReadReturned
    /\ ~opt.some
    /\ outcome = Err(NoUpgradeResponse)

\* C6 as claimed: connect fails with CannotResolveHost when the target has no
\* host, when resolution returns no address and when the resolution call
\* itself fails; otherwise the first address, and only it, is connected to.
C6_CannotResolveHost ==
    entry = "connect" =>
       /\ (stage = "done" /\ ~uri.host.some) => outcome = Err(CannotResolveHost)
       /\ (resolved.some /\ (resolved.val.io_error \/ resolved.val.ips = <<>>)) =>
             outcome = Err(CannotResolveHost)
       /\ (resolved.some /\ ~resolved.val.io_error /\ resolved.val.ips # <<>>) =>
             tried = <<[ip |-> resolved.val.ips[1], port |-> port.val]>>

\* C7: the steps of connect are attempted in program order, each at most
\* once; a failed step is the last one attempted and its error is what
\* connect returns; a target without host fails before anything else is tried.
C7_FailFastInOrder ==
    entry = "connect" =>
       /\ IsPrefixOf(steps, StepOrder)
       /\ Len(tried) <= 1
       /\ ~uri.host.some => (steps = <<"host">> /\ ~resolved.some /\ tried = <<>>)
       /\ failed.some =>
             /\ stage = "done"
             /\ failed.val.step = steps[Len(steps)]
             /\ outcome = Err(failed.val.error)
       /\ stage = "done" => (outcome.tag = "Err" <=> failed.some)
       /\ outcome.tag = "Ok" => steps = StepOrder

\* C7 witness: the TCP connection failed; nothing after it was attempted.
C7_Witness ==
    /\ entry = "connect"
    /\ failed.some
    /\ failed.val.step = "tcp"
    /\ steps = <<"host", "port", "resolve", "tcp">>
    /\ outcome = Err(ErrorFromIo(IoError("TcpStream::connect")))

\* C8 as claimed: with no connector set, connect applies an encrypting
\* connector exactly for the schemes wss and https and a plain one otherwise;
\* a connector that was set is the one applied.
C8_ConnectorByScheme ==
    (entry = "connect" /\ applied.some) =>
       IF taken.some THEN applied.val = taken.val
       ELSE IF SchemeIn({"wss", "https"}) THEN applied.val = "New"
       ELSE applied.val = "Plain"

\* C9 as claimed: for every target with a host the Host line carries a port,
\* the one connect uses.
C9_HostAlwaysHasPort ==
    (RequestBuilt /\ uri.host.some) =>
       /\ PortSuffix(request) # <<>>
       /\ entry = "connect" => IsPortSuffix(PortSuffix(request), port.val)

\* C9 amended: the Host line carries a port exactly when the target has an
\* explicit port or one of the schemes http, https, ws, wss, and that port is
\* the one connect uses; otherwise the Host line is the bare host, and connect
\* uses port 80.
C9_HostPortWhenKnown ==
    (RequestBuilt /\ uri.host.some) =>
       /\ HostLine(request)[2] = uri.host.val
       /\ PortSuffix(request) # <<>> <=>
             (uri.port.some \/ SchemeIn({"http", "https", "ws", "wss"}))
       /\ entry = "connect" =>
             IF PortSuffix(request) # <<>>
             THEN IsPortSuffix(PortSuffix(request), port.val)
             ELSE port.val = 80

\* C9 witness: connect to a target with an unrecognized scheme and no port.
C9_Witness ==
    /\ entry = "connect"
    /\ RequestBuilt
    /\ uri.scheme = Some("ftp")
    /\ ~uri.port.some
    /\ HostLine(request) = <<"Host: ", "example.com", "\r\n">>
    /\ port = Some(80)

\* C10: the port of the target is its explicit port when it has one, else 443
\* for https and wss, 80 for http and ws, and none otherwise; the Host line
\* ends accordingly in that port, ":80", ":443", or in the bare host.
C10_DefaultPort ==
    /\ (RequestBuilt /\ uri.host.some) =>
          IF uri.port.some THEN IsPortSuffix(PortSuffix(request), uri.port.val)
          ELSE IF SchemeIn({"https", "wss"}) THEN PortSuffix(request) = <<":", "4", "4", "3">>
          ELSE IF SchemeIn({"http", "ws"}) THEN PortSuffix(request) = <<":", "8", "0">>
          ELSE PortSuffix(request) = <<>>
    /\ (entry = "connect" /\ port.some) =>
          IF uri.port.some THEN port.val = uri.port.val
          ELSE IF SchemeIn({"https", "wss"}) THEN port.val = 443
          ELSE port.val = 80

\* C10 witness: a wss target without port; its Host line ends in ":443".
C10_Witness ==
    /\ RequestBuilt
    /\ uri.scheme = Some("wss")
    /\ ~uri.port.some
    /\ HostLine(request) = <<"Host: ", "example.com", ":", "4", "4", "3", "\r\n">>

-----------------------------------------------------------------------------
(* The request as bytes, for stating the claims.  The model keeps a request  *)
(* as the pieces appended to buf; CharsOf spells each piece out, one         *)
(* character per element, so that requests compare byte by byte.             *)

\* The characters of a piece; a piece of one character is that character.
CharsOf(piece) ==
    CASE piece = "" -> <<>>
      [] piece = "GET " ->
          <<"G", "E", "T", " ">>
      [] piece = "/chat" ->
          <<"/", "c", "h", "a", "t">>
      [] piece = "x=1" ->
          <<"x", "=", "1">>
      [] piece = " HTTP/1.1\r\n" ->
          <<" ", "H", "T", "T", "P", "/", "1", ".", "1", "\r", "\n">>
      [] piece = "Host: " ->
          <<"H", "o", "s", "t", ":", " ">>
      [] piece = "example.com" ->
          <<"e", "x", "a", "m", "p", "l", "e", ".", "c", "o", "m">>
      [] piece = "\r\n" ->
          <<"\r", "\n">>
      [] piece = "Upgrade: websocket\r\nConnection: Upgrade\r\nSec-WebSocket-Key: " ->
          <<"U", "p", "g", "r", "a", "d", "e", ":", " ", "w", "e", "b", "s", "o", "c",
            "k", "e", "t", "\r", "\n", "C", "o", "n", "n", "e", "c", "t", "i", "o",
            "n", ":", " ", "U", "p", "g", "r", "a", "d", "e", "\r", "\n", "S", "e",
            "c", "-", "W", "e", "b", "S", "o", "c", "k", "e", "t", "-", "K", "e", "y",
            ":", " ">>
      [] piece = "\r\nSec-WebSocket-Version: 13\r\n" ->
          <<"\r", "\n", "S", "e", "c", "-", "W", "e", "b", "S", "o", "c", "k", "e",
            "t", "-", "V", "e", "r", "s", "i", "o", "n", ":", " ", "1", "3", "\r",
            "\n">>
      [] piece = "origin" ->
          <<"o", "r", "i", "g", "i", "n">>
      [] piece = "host" ->
          <<"h", "o", "s", "t">>
      [] piece = ": " ->
          <<":", " ">>
      [] OTHER -> <<piece>>

\* The bytes of a sequence of pieces.
RECURSIVE BytesOf(_)
BytesOf(pieces) ==
    IF pieces = <<>> THEN <<>>
    ELSE CharsOf(Head(pieces)) \o BytesOf(Tail(pieces))

CRLF == <<"\r", "\n">>

\* A line of the request: its text and the line end.
Line(text) == text \o CRLF

\* The decimal numeral of each port of the model.
PortChars(p) ==
    CASE p = 80 -> <<"8", "0">>
      [] p = 443 -> <<"4", "4", "3">>
      [] p = 8080 -> <<"8", "0", "8", "0">>

\* The port the Host line names: the explicit one, else the scheme's default.
ExpectedHostPort(u) ==
    IF u.port.some THEN <<":">> \o PortChars(u.port.val)
    ELSE IF u.scheme = Some("https") \/ u.scheme = Some("wss") THEN <<":", "4", "4", "3">>
    ELSE IF u.scheme = Some("http") \/ u.scheme = Some("ws") THEN <<":", "8", "0">>
    ELSE <<>>

\* The names of the calls, each once, in the order of their first call.
RECURSIVE FirstAdded(_)
FirstAdded(calls) ==
    IF calls = <<>> THEN <<>>
    ELSE LET before == FirstAdded(SubSeq(calls, 1, Len(calls) - 1))
             name   == calls[Len(calls)].name
         IN  IF \E i \in 1..Len(before) : before[i] = name THEN before
             ELSE Append(before, name)

\* The value of the last call that named `name`.
LastValue(calls, name) ==
    LET is == {i \in 1..Len(calls) : calls[i].name = name}
    IN  calls[CHOOSE i \in is : \A j \in is : j <= i].value

\* One line "<name>: <value>" per name, in the order given.
RECURSIVE ExtraLines(_, _)
ExtraLines(names, calls) ==
    IF names = <<>> THEN <<>>
    ELSE Line(CharsOf(Head(names)) \o <<":", " ">>
              \o CharsOf(LastValue(calls, Head(names))))
         \o ExtraLines(Tail(names), calls)

\* The request the wire format prescribes for target u, key (24 characters)
\* and the add_header calls made.
ExpectedRequest(u, key, calls) ==
    Line(<<"G", "E", "T", " ">> \o CharsOf(u.path)
         \o (IF u.query.some THEN <<"?">> \o CharsOf(u.query.val) ELSE <<>>)
         \o <<" ", "H", "T", "T", "P", "/", "1", ".", "1">>)
    \o (IF u.host.some
        THEN Line(<<"H", "o", "s", "t", ":", " ">> \o CharsOf(u.host.val)
                  \o ExpectedHostPort(u))
        ELSE <<>>)
    \o Line(<<"U", "p", "g", "r", "a", "d", "e", ":", " ", "w", "e", "b", "s", "o", "c", "k", "e",
  "t">>)
    \o Line(<<"C", "o", "n", "n", "e", "c", "t", "i", "o", "n", ":", " ", "U", "p", "g", "r", "a",
  "d", "e">>)
    \o Line(<<"S", "e", "c", "-", "W", "e", "b", "S", "o", "c", "k", "e", "t", "-", "K", "e", "y",
  ":", " ">>
            \o key)
    \o Line(<<"S", "e", "c", "-", "W", "e", "b", "S", "o", "c", "k", "e", "t", "-", "V", "e", "r",
  "s", "i", "o", "n", ":", " ", "1", "3">>)
    \o ExtraLines(FirstAdded(calls), calls)
    \o CRLF

\* The request of the scenario: ws://example.com/chat?x=1, no extra headers,
\* a key of sixteen zero bytes.
ScenarioRequest ==
    <<"G", "E", "T", " ", "/", "c", "h", "a", "t", "?", "x", "=", "1", " ", "H", "T",
      "T", "P", "/", "1", ".", "1", "\r", "\n", "H", "o", "s", "t", ":", " ", "e", "x",
      "a", "m", "p", "l", "e", ".", "c", "o", "m", ":", "8", "0", "\r", "\n", "U", "p",
      "g", "r", "a", "d", "e", ":", " ", "w", "e", "b", "s", "o", "c", "k", "e", "t",
      "\r", "\n", "C", "o", "n", "n", "e", "c", "t", "i", "o", "n", ":", " ", "U", "p",
      "g", "r", "a", "d", "e", "\r", "\n", "S", "e", "c", "-", "W", "e", "b", "S", "o",
      "c", "k", "e", "t", "-", "K", "e", "y", ":", " ", "A", "A", "A", "A", "A", "A",
      "A", "A", "A", "A", "A", "A", "A", "A", "A", "A", "A", "A", "A", "A", "A", "A",
      "=", "=", "\r", "\n", "S", "e", "c", "-", "W", "e", "b", "S", "o", "c", "k", "e",
      "t", "-", "V", "e", "r", "s", "i", "o", "n", ":", " ", "1", "3", "\r", "\n",
      "\r", "\n">>

-----------------------------------------------------------------------------
(* Claims about the request *)

\* C11: the request built is, byte for byte, the request line with the query
\* after "?" exactly when there is one, the Host line when the target has a
\* host, the four WebSocket lines in their order with the key, one line per
\* extra header in the order the names were first added, and an empty line,
\* every line ended by CRLF; it is a function of target, key and headers.
C11_RequestBytes ==
    RequestBuilt => BytesOf(request) = ExpectedRequest(uri, key_base64, added)

\* C11 witness: host was added, then origin, then host again with another
\* value; the request of a target with a query was built.
C11_Witness ==
    /\ RequestBuilt
    /\ uri.query.some
    /\ added = <<[name |-> "host", value |-> "a"], [name |-> "origin", value |-> "a"],
                 [name |-> "host", value |-> "b"]>>
    /\ headers = <<[name |-> "host", value |-> "b"], [name |-> "origin", value |-> "a"]>>

\* C11 scenario: the request of the scenario is the one built.
C11_Scenario ==
    /\ RequestBuilt
    /\ added = <<>>
    /\ key_base64 = Base64([i \in 1..16 |-> 0])
    /\ BytesOf(request) = ScenarioRequest

UpperCase ==
    <<"A", "B", "C", "D", "E", "F", "G", "H", "I", "J", "K", "L", "M",
      "N", "O", "P", "Q", "R", "S", "T", "U", "V", "W", "X", "Y", "Z">>

LowerCase ==
    <<"a", "b", "c", "d", "e", "f", "g", "h", "i", "j", "k", "l", "m",
      "n", "o", "p", "q", "r", "s", "t", "u", "v", "w", "x", "y", "z">>

\* Header names compare without regard to case.
Lower(text) ==
    [i \in 1..Len(text) |->
        IF \E k \in 1..26 : UpperCase[k] = text[i]
        THEN LowerCase[CHOOSE k \in 1..26 : UpperCase[k] = text[i]]
        ELSE text[i]]

\* The lines of a byte string, without their line ends; what follows the
\* last CRLF is dropped.
RECURSIVE LinesOf(_)
LinesOf(bytes) ==
    LET ends == {i \in 1..(Len(bytes) - 1) : bytes[i] = "\r" /\ bytes[i + 1] = "\n"}
    IN  IF ends = {} THEN <<>>
        ELSE LET e == CHOOSE i \in ends : \A j \in ends : i <= j
             IN  <<SubSeq(bytes, 1, e - 1)>> \o LinesOf(SubSeq(bytes, e + 2, Len(bytes)))

\* The header lines of a request: those between the request line and the
\* empty line.
HeaderLinesOf(req) ==
    LET ls == LinesOf(BytesOf(req))
    IN  SubSeq(ls, 2, Len(ls) - 1)

\* The name of a header line, in lower case, and its value.
NameOf(line) ==
    LET colons == {i \in 1..Len(line) : line[i] = ":"}
    IN  Lower(SubSeq(line, 1, (CHOOSE i \in colons : \A j \in colons : i <= j) - 1))

ValueOf(line) == SubSeq(line, Len(NameOf(line)) + 3, Len(line))

\* The lines among ls that carry the name `name` (in lower case).
LinesNamed(ls, name) == {i \in 1..Len(ls) : NameOf(ls[i]) = name}

\* The names of the four headers every request carries, and their values.
NameUpgrade == <<"u", "p", "g", "r", "a", "d", "e">>
NameConnection == <<"c", "o", "n", "n", "e", "c", "t", "i", "o", "n">>
NameKey ==
    <<"s", "e", "c", "-", "w", "e", "b", "s", "o", "c", "k", "e", "t", "-", "k", "e", "y">>
NameVersion ==
    <<"s", "e", "c", "-", "w", "e", "b", "s", "o", "c", "k", "e", "t", "-",
      "v", "e", "r", "s", "i", "o", "n">>
NameHost == <<"h", "o", "s", "t">>

\* Exactly one of the lines ls is named `name`, and it carries `value`.
OneLine(ls, name, value) ==
    /\ Cardinality(LinesNamed(ls, name)) = 1
    /\ \A i \in LinesNamed(ls, name) : ValueOf(ls[i]) = value

\* C12 as claimed: whatever add_header was called with, each of the five
\* generated header names is on exactly one line of the request, with the
\* generated value (Host when the target has a host); and a name added through
\* add_header is on exactly one line, with the value of its last call.
C12_MandatedNotOverridable ==
    RequestBuilt =>
       LET ls == HeaderLinesOf(request)
       IN  /\ OneLine(ls, NameUpgrade, <<"w", "e", "b", "s", "o", "c", "k", "e", "t">>)
           /\ OneLine(ls, NameConnection, <<"U", "p", "g", "r", "a", "d", "e">>)
           /\ OneLine(ls, NameKey, key_base64)
           /\ OneLine(ls, NameVersion, <<"1", "3">>)
           /\ uri.host.some =>
                 OneLine(ls, NameHost, CharsOf(uri.host.val) \o ExpectedHostPort(uri))
           /\ \A i \in 1..Len(added) :
                 OneLine(ls, Lower(CharsOf(added[i].name)),
                         CharsOf(LastValue(added, added[i].name)))

-----------------------------------------------------------------------------
(* Claims about the state of the validator *)

\* The length of the codepoint a leading byte announces by its high bits:
\* 0xxxxxxx 1, 110xxxxx 2, 1110xxxx 3, 11110xxx 4; 0 for any other byte.
LeadLen(b) ==
    IF b \div 128 = 0 THEN 1
    ELSE IF b \div 32 = 6 THEN 2
    ELSE IF b \div 16 = 14 THEN 3
    ELSE IF b \div 8 = 30 THEN 4
    ELSE 0

\* The bytes the validator holds as pending.
Pending == SubSeq(partial_codepoint, 1, partial_codepoint_len)

\* C13: in every reachable state, also after a feed that failed, the pending
\* length is between 0 and 3 and, when it is not 0, less than the length the
\* stored leading byte announces, and the pending bytes are the first bytes of
\* the encoding of some scalar value without being all of it.
C13_NeverCompleteCodepoint ==
    /\ partial_codepoint_len \in 0..3
    /\ partial_codepoint_len > 0 =>
          /\ partial_codepoint_len < LeadLen(partial_codepoint[1])
          /\ IsProperPrefix(Pending)
          /\ ~WellFormed(Pending)

\* C13 witness: a feed failed, no reset followed, and a later feed left two
\* bytes of a four-byte codepoint pending.
C13_Witness ==
    /\ ~okBefore
    /\ result = "Ok"
    /\ partial_codepoint_len = 2
    /\ Pending = <<240, 169>>

\* C14: whenever feed classifies the stored leading byte, that byte is a
\* leading byte of a multi-byte codepoint (C2..F4) in one of the classified
\* ranges, and no unchecked operation has left its contract; this also after
\* feeds that failed.
C14_StoredLeadClassified ==
    /\ classified # -1 => (classified \in 194..244 /\ LeadLen(classified) \in 2..4)
    /\ partial_codepoint_len > 0 => partial_codepoint[1] \in 194..244
    /\ ~ub

\* C14 witness: a feed failed on the byte after a stored E0, no reset
\* followed, and the next feed classified the E0 that was still stored.
C14_Witness ==
    /\ ~okBefore
    /\ classified = 224
    /\ pendingBefore = 1
    /\ lastInput = <<169, 128>>
    /\ result = "Ok"

\* C15: a feed of an empty chunk with is_complete = false while a codepoint
\* is pending returns Ok and changes neither the pending length nor the
\* buffer.
C15_EmptyFeedIsNoOp ==
    [][(/\ partial_codepoint_len > 0
        /\ result' # "none" /\ lastInput' = <<>> /\ ~lastFinal')
       => (/\ result' = "Ok"
           /\ partial_codepoint_len' = partial_codepoint_len
           /\ partial_codepoint' = partial_codepoint)]_vars

\* C15 witness: an empty non-final chunk was fed while two bytes were pending.
C15_Witness ==
    /\ result = "Ok"
    /\ lastInput = <<>>
    /\ ~lastFinal
    /\ pendingBefore = 2
    /\ partial_codepoint_len = 2

\* C16: every feed returns what the same feed returns on a validator that was
\* created when reset was last called (when the validator was created, if
\* reset was never called) and fed the same chunks since, and both hold the
\* same pending bytes.
C16_ResetIsFresh ==
    /\ result = fresh_result
    /\ partial_codepoint_len = fresh_len
    /\ Pending = SubSeq(fresh_codepoint, 1, fresh_len)

\* C16 witness: reset was called with F0 A9 80 pending; E0 was fed next, so
\* the buffer holds E0 A9 80, of which A9 80 are left over from before the
\* reset; the empty final feed that followed was rejected.
C16_Witness ==
    /\ partial_codepoint = <<224, 169, 128, 0>>
    /\ fresh_codepoint = <<224, 0, 0, 0>>
    /\ lastInput = <<>>
    /\ lastFinal
    /\ result = "InvalidUtf8"

\* The bytes that were pending before the last feed, in a message fed cleanly.
PendingBeforeBytes ==
    SubSeq(fed, Len(fed) - Len(lastInput) - pendingBefore + 1, Len(fed) - Len(lastInput))

\* C17 as claimed: after every feed with is_complete = true, whatever it
\* returned, the pending length is 0.
C17_FinalFeedClears ==
    (result # "none" /\ lastFinal) => partial_codepoint_len = 0

\* C17 amended: after a feed with is_complete = true the pending length is 0
\* if the feed returned Ok or was called with nothing pending; called with a
\* codepoint pending, it clears the pending bytes exactly when the chunk
\* completes that codepoint, and otherwise fails and leaves them stored.
C17_FinalFeedClearsUnlessPendingFails ==
    (result # "none" /\ lastFinal) =>
       /\ result = "Ok" => partial_codepoint_len = 0
       /\ pendingBefore = 0 => partial_codepoint_len = 0
       /\ partial_codepoint_len > 0 =>
             (result = "InvalidUtf8" /\ partial_codepoint_len >= pendingBefore)
       /\ (FedCleanly /\ pendingBefore > 0) =>
             (partial_codepoint_len = 0 <=>
                 \E k \in 1..Len(lastInput) :
                    IsScalarEncoding(PendingBeforeBytes \o SubSeq(lastInput, 1, k)))

\* C17 witness: F0 was pending, the final chunk brought only A9; the feed
\* failed and left F0 A9 pending.
C17_Witness ==
    /\ FedCleanly /\ lastFinal
    /\ pendingBefore = 1
    /\ lastInput = <<169>>
    /\ result = "InvalidUtf8"
    /\ Pending = <<240, 169>>

\* C18: the unchecked slice accesses of feed stay inside the buffer: the
\* subtraction complete_codepoint_len - partial_codepoint_len does not
\* underflow, the range written to and read from the buffer ends at or below
\* 4, and the tail kept from a non-final chunk is at most 3 bytes long.
C18_UncheckedInBounds ==
    /\ ~ub
    /\ partial_codepoint_len <= 3
    /\ classified # -1 =>
          LET missing_bytes == LeadLen(classified) - pendingBefore
          IN  /\ missing_bytes >= 0
              /\ pendingBefore + Min(Len(lastInput), missing_bytes) <= 4

\* C18 witness: three bytes were pending and the chunk brought the fourth and
\* one more, so the copy wrote the range 3..4, the end of the buffer, and the
\* last byte of the chunk was kept as the new tail.
C18_Witness ==
    /\ ~ub
    /\ classified = 240
    /\ pendingBefore = 3
    /\ lastInput = <<169, 195>>
    /\ result = "Ok"
    /\ Pending = <<195>>

-----------------------------------------------------------------------------
(* Claims about the end of the handshake *)

\* C19: when connect_on succeeds, what the peer sent after its response,
\* whether it was read together with the response or is still in the stream,
\* is given in order (buffered bytes first), with the stream and the role
\* Client, to from_framed, whose result connect_on returns.
C19_LeftoverHandedOver ==
    outcome.tag = "Ok" =>
       /\ outcome.val.role = "Client"
       /\ outcome.val.framed.read_buf \o outcome.val.framed.unread = sent_after
       /\ outcome.val.framed.io = stream.val
       /\ framed = Some(outcome.val.framed)

\* C19 witness: the peer sent two frames behind its response and the first
\* of them was read together with the response.
C19_Witness ==
    /\ outcome.tag = "Ok"
    /\ sent_after = <<"frame1", "frame2">>
    /\ outcome.val.framed.read_buf = <<"frame1">>
    /\ outcome.val.framed.unread = <<"frame2">>

\* The bytes a base64 text stands for (standard alphabet, '=' padding).
RECURSIVE Base64Decode(_)
Base64Decode(text) ==
    IF Len(text) < 4 THEN <<>>
    ELSE LET v(ch) == (CHOOSE n \in 1..64 : Base64Chars[n] = ch) - 1
             a == v(text[1])
             b == v(text[2])
             group ==
                 IF text[3] = "=" THEN <<a * 4 + b \div 16>>
                 ELSE IF text[4] = "="
                 THEN <<a * 4 + b \div 16, (b % 16) * 16 + v(text[3]) \div 4>>
                 ELSE <<a * 4 + b \div 16, (b % 16) * 16 + v(text[3]) \div 4,
                        (v(text[3]) % 4) * 64 + v(text[4])>>
         IN  group \o Base64Decode(SubSeq(text, 5, Len(text)))

\* The value of the Sec-WebSocket-Key line of req: the pieces between the
\* piece that ends in the name of the header and the piece that ends the line.
KeyField(req) ==
    LET i == CHOOSE k \in 1..Len(req) :
                 req[k] = "Upgrade: websocket\r\nConnection: Upgrade\r\nSec-WebSocket-Key: "
        j == CHOOSE k \in (i + 1)..Len(req) :
                 /\ req[k] = "\r\nSec-WebSocket-Version: 13\r\n"
                 /\ \A m \in (i + 1)..(k - 1) : req[m] # "\r\nSec-WebSocket-Version: 13\r\n"
    IN  SubSeq(req, i + 1, j - 1)

====
